---- MODULE Spec2Model ----
(***************************************************************************)
(* Model of nemo/lightning/pytorch/plugins/mixed_precision.py and          *)
(* nemo/lightning/pytorch/trainer.py.                                      *)
(*                                                                         *)
(* The plugin is a record built by its constructor.  Optimizers live in a  *)
(* heap (a sequence; the index is the object's identity), and so do the    *)
(* Python lists of optimizers handed to connect.  Every handler is one     *)
(* action; the calls it makes on its collaborators (closure, optimizer,    *)
(* scaler, hooks) are recorded, in order, in call.trace.                   *)
(***************************************************************************)
EXTENDS Integers, Sequences, FiniteSets, TLC

VARIABLES
    plugin,   \* the precision plugin, as left by its __init__
    heap,     \* optimizer objects; heap[i] is the object with identity i
    lists,    \* list objects holding optimizer identities; lists[i] has identity i
    call,     \* the last handler call: its arguments, its result, its trace
    io,       \* Trainer.__io__: the captured configuration
    fabric    \* the keyword arguments of the last Fabric(...) built by to_fabric

vars == <<plugin, heap, lists, call, io, fabric>>

----------------------------------------------------------------------------
(* Bounds *)

MaxLen == 2        \* longest optimizer list the caller hands to connect
MaxHeap == 5       \* optimizer objects alive at once
MaxLists == 3      \* list objects alive at once

----------------------------------------------------------------------------
(* Values of the Python world *)

Precisions == {"16-mixed", "bf16-mixed"}

\* what a caller may pass as the `scaler` argument
ScalerArgs == {"None", "auto", "CallerScaler"}

\* torch.nn.Module or pl.LightningModule (with its automatic_optimization flag)
Models ==
    { [isLightningModule |-> TRUE,  automatic_optimization |-> TRUE],
      [isLightningModule |-> TRUE,  automatic_optimization |-> FALSE],
      [isLightningModule |-> FALSE, automatic_optimization |-> FALSE] }

NoModel == [isLightningModule |-> FALSE, automatic_optimization |-> FALSE]

\* what the closure returns: None, or a loss
ClosureResults == {"None", "loss"}

\* An optimizer object.  fp32 is the value of its fp32_grad_accumulation
\* attribute: "true", "false", or "missing" when the object has none.
Optimizer(w, inner, fp32) ==
    [isMainParamsOptimizerWrapper |-> w, inner |-> inner, fp32_grad_accumulation |-> fp32]

\* The optimizers the caller owns before the plugin touches anything: a plain
\* torch optimizer and two wrappers the caller built itself, one for each
\* accumulation precision.
CallerHeap ==
    << Optimizer(FALSE, 0, "missing"),
       Optimizer(TRUE, 1, "true"),
       Optimizer(TRUE, 1, "false") >>

\* optimizers that are no MainParamsOptimizerWrapper and yet carry the attribute
ForeignOptimizers ==
    << Optimizer(FALSE, 0, "true"),
       Optimizer(FALSE, 0, "false") >>

RECURSIVE SeqsUpTo(_, _)
SeqsUpTo(S, n) ==
    IF n = 0 THEN { <<>> }
    ELSE LET shorter == SeqsUpTo(S, n - 1)
         IN  shorter \cup { Append(s, x) : s \in shorter, x \in S }

----------------------------------------------------------------------------
(* Constructors *)

\* lightning's MixedPrecision.__init__(precision, device, scaler), reached
\* through super().__init__: it stores the scaler it is given, creates torch's
\* default GradScaler when none is given for "16-mixed", and refuses a scaler
\* for "bf16-mixed".
MixedPrecision_init(precision, scaler) ==
    IF scaler = "None" /\ precision = "16-mixed" THEN "TorchGradScaler"
    ELSE IF scaler # "None" /\ precision = "bf16-mixed" THEN "raise"
    ELSE scaler

dtype_of(precision) ==
    IF precision = "16-mixed" THEN "float16"
    ELSE IF precision = "bf16-mixed" THEN "bfloat16"
    ELSE "None"

\* a constructor that replaces the scaler only when asked to with "auto"
MegatronMixedPrecision_init_HonoursArgument(precision, amp_02, scaler) ==
    LET chosen == IF scaler = "auto"
                  THEN IF precision = "bf16-mixed" THEN "None" ELSE "GradScaler"
                  ELSE scaler
    IN  [ cls       |-> "MegatronMixedPrecision",
          precision |-> precision,
          scaler    |-> MixedPrecision_init(precision, chosen),
          dtype     |-> dtype_of(precision),
          amp_02    |-> amp_02,
          scalerArg |-> scaler ]

\* MegatronMixedPrecision.__init__: the scaler argument is overwritten before
\* it is ever read.
MegatronMixedPrecision_init(precision, amp_02, scaler) ==
    LET chosen == IF precision = "bf16-mixed" THEN "None" ELSE "GradScaler"
    IN  [ cls       |-> "MegatronMixedPrecision",
          precision |-> precision,
          scaler    |-> MixedPrecision_init(precision, chosen),
          dtype     |-> dtype_of(precision),
          amp_02    |-> amp_02,
          scalerArg |-> scaler ]

\* MegatronHalfPrecision.__init__: the scaler is chosen by the plugin only
\* for scaler == "auto".  The class has no amp_02 attribute.
MegatronHalfPrecision_init(precision, scaler) ==
    LET chosen == IF scaler = "auto"
                  THEN IF precision = "bf16-mixed" THEN "None" ELSE "GradScaler"
                  ELSE scaler
    IN  [ cls       |-> "MegatronHalfPrecision",
          precision |-> precision,
          scaler    |-> MixedPrecision_init(precision, chosen),
          dtype     |-> dtype_of(precision),
          amp_02    |-> FALSE,
          scalerArg |-> scaler ]

\* every plugin whose construction returns
Plugins ==
    { p \in { MegatronMixedPrecision_init(pr, a, s) :
                pr \in Precisions, a \in BOOLEAN, s \in ScalerArgs }
            \cup
            { MegatronHalfPrecision_init(pr, s) : pr \in Precisions, s \in ScalerArgs } :
        p.scaler # "raise" }

----------------------------------------------------------------------------
(* Optimizer conversion *)

\* a convert_optimizer that forgets the amp_02 flag
convert_optimizer_IgnoresAmp02(self, hp, optimizer) ==
    IF hp[optimizer].isMainParamsOptimizerWrapper
    THEN [heap |-> hp, ret |-> optimizer]
    ELSE [heap |-> Append(hp, Optimizer(TRUE, optimizer, "true")),
          ret  |-> Len(hp) + 1]

\* a convert_optimizer that forgets the isinstance test
convert_optimizer_AlwaysWraps(self, hp, optimizer) ==
    IF ~self.amp_02
    THEN [heap |-> hp, ret |-> optimizer]
    ELSE [heap |-> Append(hp, Optimizer(TRUE, optimizer, "true")),
          ret  |-> Len(hp) + 1]

\* MegatronMixedPrecision.convert_optimizer.  The result is the heap after the
\* call and the identity of the returned optimizer.  The wrapper is built with
\* fp32_grad_accum=True, which is what its fp32_grad_accumulation reports.
convert_optimizer(self, hp, optimizer) ==
    IF hp[optimizer].isMainParamsOptimizerWrapper \/ ~self.amp_02
    THEN [heap |-> hp, ret |-> optimizer]
    ELSE [heap |-> Append(hp, Optimizer(TRUE, optimizer, "true")),
          ret  |-> Len(hp) + 1]

\* a connect that wraps in the caller's own list
connect_InPlace(self, hp, ls, model, optimizers, lr_schedulers) ==
    IF \/ ls[optimizers] = <<>>
       \/ ~self.amp_02
       \/ hp[ls[optimizers][1]].isMainParamsOptimizerWrapper
    THEN [heap |-> hp, lists |-> ls,
          model |-> model, optimizers |-> optimizers, lr_schedulers |-> lr_schedulers]
    ELSE LET conv == convert_optimizer(self, hp, ls[optimizers][1])
         IN  [heap  |-> conv.heap,
              lists |-> [ls EXCEPT ![optimizers] = [@ EXCEPT ![1] = conv.ret]],
              model |-> model, optimizers |-> optimizers,
              lr_schedulers |-> lr_schedulers]

\* MegatronMixedPrecision.connect.  `optimizers` is the identity of the list
\* the caller passes; [*optimizers] allocates a new list object.
connect(self, hp, ls, model, optimizers, lr_schedulers) ==
    IF \/ ls[optimizers] = <<>>
       \/ ~self.amp_02
       \/ hp[ls[optimizers][1]].isMainParamsOptimizerWrapper
    THEN [heap |-> hp, lists |-> ls,
          model |-> model, optimizers |-> optimizers, lr_schedulers |-> lr_schedulers]
    ELSE LET _optimizers == Len(ls) + 1
             copied      == Append(ls, ls[optimizers])
             conv        == convert_optimizer(self, hp, copied[_optimizers][1])
         IN  [heap  |-> conv.heap,
              lists |-> [copied EXCEPT ![_optimizers] = [@ EXCEPT ![1] = conv.ret]],
              model |-> model, optimizers |-> _optimizers,
              lr_schedulers |-> lr_schedulers]

----------------------------------------------------------------------------
(* optimizer_step *)

\* The outcome of one optimizer_step call: the calls it made on its
\* collaborators, in order; how it ended; and the branch it took.
StepResult(trace, outcome, branch) ==
    [trace |-> trace, outcome |-> outcome, branch |-> branch]

AssertWrapper == "AssertionError: MegatronHalfPrecisionPlugin supports only the optimizer with master parameters"
AssertBF16 == "AssertionError: BF16 uses FP32 grad accumulation"
AssertFP16 == "AssertionError: FP16 uses FP16 grad accumulation"

\* model is a LightningModule in automatic optimization and the closure
\* returned None: the only case in which the scaled path issues no step
StepOmitted(model, closure_result) ==
    /\ model.isLightningModule
    /\ model.automatic_optimization
    /\ closure_result = "None"

\* an unscaled step that skips optimizer.step when the closure returned None
unscaled_step_SkipsOnNone(optimizer, model, closure_result) ==
    IF optimizer.fp32_grad_accumulation = "missing"
    THEN StepResult(<<>>, "AttributeError", "unscaled")
    ELSE IF optimizer.fp32_grad_accumulation # "true"
    THEN StepResult(<<>>, AssertBF16, "unscaled")
    ELSE IF StepOmitted(model, closure_result)
    THEN StepResult(<<"closure", "_after_closure">>, "returned", "unscaled")
    ELSE StepResult(<<"closure", "_after_closure", "optimizer.step">>,
                    "returned", "unscaled")

\* MegatronMixedPrecision.optimizer_step, self.scaler is None
MegatronMixedPrecision_unscaled_step(optimizer, model, closure_result) ==
    IF optimizer.fp32_grad_accumulation = "missing"
    THEN StepResult(<<>>, "AttributeError", "unscaled")
    ELSE IF optimizer.fp32_grad_accumulation # "true"
    THEN StepResult(<<>>, AssertBF16, "unscaled")
    ELSE StepResult(<<"closure", "_after_closure", "optimizer.step">>,
                    "returned", "unscaled")

\* a scaled step that runs the closure before it checks the precondition
scaled_step_AssertsAfterClosure(optimizer, model, closure_result) ==
    IF optimizer.fp32_grad_accumulation = "missing"
    THEN StepResult(<<"closure">>, "AttributeError", "scaled")
    ELSE IF optimizer.fp32_grad_accumulation # "false"
    THEN StepResult(<<"closure">>, AssertFP16, "scaled")
    ELSE StepResult(
            <<"closure", "optimizer.copy_model_grads_to_main_grads",
              "scaler.unscale_", "_after_closure">>
            \o (IF ~model.isLightningModule
                   \/ ~model.automatic_optimization
                   \/ closure_result # "None"
                THEN <<"scaler.step", "scaler.update">>
                ELSE <<>>),
            "returned", "scaled")

\* a scaled step that unscales only after the _after_closure hook
scaled_step_UnscalesLate(optimizer, model, closure_result) ==
    IF optimizer.fp32_grad_accumulation = "missing"
    THEN StepResult(<<>>, "AttributeError", "scaled")
    ELSE IF optimizer.fp32_grad_accumulation # "false"
    THEN StepResult(<<>>, AssertFP16, "scaled")
    ELSE StepResult(
            <<"closure", "optimizer.copy_model_grads_to_main_grads",
              "_after_closure", "scaler.unscale_">>
            \o (IF ~model.isLightningModule
                   \/ ~model.automatic_optimization
                   \/ closure_result # "None"
                THEN <<"scaler.step", "scaler.update">>
                ELSE <<>>),
            "returned", "scaled")

\* a scaled step that steps whatever the closure returned
scaled_step_NeverSkips(optimizer, model, closure_result) ==
    IF optimizer.fp32_grad_accumulation = "missing"
    THEN StepResult(<<>>, "AttributeError", "scaled")
    ELSE IF optimizer.fp32_grad_accumulation # "false"
    THEN StepResult(<<>>, AssertFP16, "scaled")
    ELSE StepResult(
            <<"closure", "optimizer.copy_model_grads_to_main_grads",
              "scaler.unscale_", "_after_closure", "scaler.step", "scaler.update">>,
            "returned", "scaled")

\* MegatronMixedPrecision.optimizer_step, self.scaler is not None
MegatronMixedPrecision_scaled_step(optimizer, model, closure_result) ==
    IF optimizer.fp32_grad_accumulation = "missing"
    THEN StepResult(<<>>, "AttributeError", "scaled")
    ELSE IF optimizer.fp32_grad_accumulation # "false"
    THEN StepResult(<<>>, AssertFP16, "scaled")
    ELSE StepResult(
            <<"closure", "optimizer.copy_model_grads_to_main_grads",
              "scaler.unscale_", "_after_closure">>
            \o (IF ~model.isLightningModule
                   \/ ~model.automatic_optimization
                   \/ closure_result # "None"
                THEN <<"scaler.step", "scaler.update">>
                ELSE <<>>),
            "returned", "scaled")

\* MegatronMixedPrecision.optimizer_step.  `optimizer` is the optimizer
\* object.  The parent's optimizer_step is lightning's; the delegation is
\* recorded as one call.
MegatronMixedPrecision_optimizer_step(self, optimizer, model, closure_result) ==
    IF ~self.amp_02 /\ ~optimizer.isMainParamsOptimizerWrapper
    THEN StepResult(<<"super.optimizer_step">>, "returned", "parent")
    ELSE IF self.scaler = "None"
    THEN MegatronMixedPrecision_unscaled_step(optimizer, model, closure_result)
    ELSE MegatronMixedPrecision_scaled_step(optimizer, model, closure_result)

\* MegatronHalfPrecision.optimizer_step, self.scaler is None
MegatronHalfPrecision_unscaled_step(optimizer, model, closure_result) ==
    IF optimizer.fp32_grad_accumulation = "missing"
    THEN StepResult(<<>>, "AttributeError", "unscaled")
    ELSE IF optimizer.fp32_grad_accumulation # "true"
    THEN StepResult(<<>>, AssertBF16, "unscaled")
    ELSE StepResult(<<"closure", "_after_closure", "optimizer.step">>,
                    "returned", "unscaled")

\* MegatronHalfPrecision.optimizer_step, self.scaler is not None
MegatronHalfPrecision_scaled_step(optimizer, model, closure_result) ==
    IF optimizer.fp32_grad_accumulation = "missing"
    THEN StepResult(<<>>, "AttributeError", "scaled")
    ELSE IF optimizer.fp32_grad_accumulation # "false"
    THEN StepResult(<<>>, AssertFP16, "scaled")
    ELSE StepResult(
            <<"closure", "optimizer.copy_model_grads_to_main_grads",
              "scaler.unscale_", "_after_closure">>
            \o (IF ~model.isLightningModule
                   \/ ~model.automatic_optimization
                   \/ closure_result # "None"
                THEN <<"scaler.step", "scaler.update">>
                ELSE <<>>),
            "returned", "scaled")

\* MegatronHalfPrecision.optimizer_step
MegatronHalfPrecision_optimizer_step(self, optimizer, model, closure_result) ==
    IF ~optimizer.isMainParamsOptimizerWrapper
    THEN StepResult(<<>>, AssertWrapper, "none")
    ELSE IF self.scaler = "None"
    THEN MegatronHalfPrecision_unscaled_step(optimizer, model, closure_result)
    ELSE MegatronHalfPrecision_scaled_step(optimizer, model, closure_result)

optimizer_step(self, optimizer, model, closure_result) ==
    IF self.cls = "MegatronMixedPrecision"
    THEN MegatronMixedPrecision_optimizer_step(self, optimizer, model, closure_result)
    ELSE MegatronHalfPrecision_optimizer_step(self, optimizer, model, closure_result)

----------------------------------------------------------------------------
(* Trainer.to_fabric *)

\* A Python value seen by to_fabric: what it is (kind), which one (v), and
\* whether it went through nemo.lightning.fabric.conversion.to_fabric (conv).
Value(kind, v) == [kind |-> kind, v |-> v, conv |-> FALSE]

Absent == Value("absent", "")      \* the configuration has no such attribute
NoneValue == Value("None", "")     \* Python's None

hasattr(cfg, name) == cfg[name].kind # "absent"

\* isinstance(x, fdl.Config)
isConfig(x) == x.kind = "config"

\* fdl.build(cfg): the object the configuration describes
fdl_build(x) == [x EXCEPT !.kind = "built"]

\* nemo.lightning.fabric.conversion.to_fabric(obj): the Fabric counterpart
to_fabric_conversion(x) == [x EXCEPT !.conv = TRUE]

\* a to_fabric that takes the callbacks the trainer was configured with
to_fabric_UsesTrainerCallbacks(self_io, callbacks, loggers) ==
    [ devices     |-> IF hasattr(self_io, "devices") THEN self_io.devices ELSE NoneValue,
      accelerator |-> IF hasattr(self_io, "accelerator")
                      THEN self_io.accelerator ELSE NoneValue,
      strategy    |-> IF hasattr(self_io, "strategy")
                      THEN to_fabric_conversion(
                              IF isConfig(self_io.strategy)
                              THEN fdl_build(self_io.strategy) ELSE self_io.strategy)
                      ELSE NoneValue,
      plugins     |-> IF hasattr(self_io, "plugins")
                      THEN to_fabric_conversion(
                              IF isConfig(self_io.plugins)
                              THEN fdl_build(self_io.plugins) ELSE self_io.plugins)
                      ELSE NoneValue,
      callbacks   |-> IF hasattr(self_io, "callbacks") THEN self_io.callbacks ELSE callbacks,
      loggers     |-> loggers ]

\* Trainer.to_fabric: the keyword arguments handed to Fabric(...)
to_fabric(self_io, callbacks, loggers) ==
    [ devices     |-> IF hasattr(self_io, "devices") THEN self_io.devices ELSE NoneValue,
      accelerator |-> IF hasattr(self_io, "accelerator")
                      THEN self_io.accelerator ELSE NoneValue,
      strategy    |-> IF hasattr(self_io, "strategy")
                      THEN to_fabric_conversion(
                              IF isConfig(self_io.strategy)
                              THEN fdl_build(self_io.strategy) ELSE self_io.strategy)
                      ELSE NoneValue,
      plugins     |-> IF hasattr(self_io, "plugins")
                      THEN to_fabric_conversion(
                              IF isConfig(self_io.plugins)
                              THEN fdl_build(self_io.plugins) ELSE self_io.plugins)
                      ELSE NoneValue,
      callbacks   |-> callbacks,
      loggers     |-> loggers ]

\* the configurations a Trainer may have captured
Captures ==
    [ devices     : {Absent, NoneValue, Value("object", "devices=1"),
                     Value("object", "devices=2")},
      accelerator : {Absent, Value("object", "gpu"), Value("object", "cpu")},
      strategy    : {Absent, Value("object", "strategy"), Value("config", "strategy")},
      plugins     : {Absent, NoneValue, Value("object", "plugins"),
                     Value("config", "plugins")},
      callbacks   : {Absent, Value("object", "trainer callbacks")},
      logger      : {Absent, Value("object", "trainer logger")} ]

NoCapture ==
    [ devices |-> Absent, accelerator |-> Absent, strategy |-> Absent,
      plugins |-> Absent, callbacks |-> Absent, logger |-> Absent ]

\* no Fabric has been built yet
NoFabric ==
    [ devices |-> Absent, accelerator |-> Absent, strategy |-> Absent,
      plugins |-> Absent, callbacks |-> Absent, loggers |-> Absent ]

CallbackArgs == {NoneValue, Value("object", "fabric callbacks")}
LoggerArgs == {NoneValue, Value("object", "fabric loggers")}

----------------------------------------------------------------------------
(* The state machine of the plugin *)

Schedulers == {"lr_schedulers A", "lr_schedulers B"}

NoCall ==
    [ op                |-> "none",
      optimizer         |-> 0,       \* the optimizer argument (identity)
      model             |-> NoModel,
      closure_result    |-> "None",
      optimizers        |-> 0,       \* the list argument (identity)
      optimizers_before |-> <<>>,    \* its contents when the call began
      lr_schedulers     |-> "",
      heap_before       |-> 0,       \* optimizer objects alive when the call began
      lists_before      |-> 0,       \* list objects alive when the call began
      ret_optimizer     |-> 0,
      ret_model         |-> NoModel,
      ret_optimizers    |-> 0,
      ret_lr_schedulers |-> "",
      callbacks         |-> Absent,  \* to_fabric's arguments
      loggers           |-> Absent,
      trace             |-> <<>>,
      outcome           |-> "",
      branch            |-> "" ]

\* A MegatronMixedPrecision (the class that defines connect and
\* convert_optimizer), its caller's optimizers, and one list of them about to
\* be handed to connect.
Init ==
    /\ plugin \in { p \in Plugins : p.cls = "MegatronMixedPrecision" }
    /\ heap = CallerHeap
    /\ \E l \in SeqsUpTo(DOMAIN CallerHeap, MaxLen) : lists = << l >>
    /\ call = NoCall
    /\ io = NoCapture
    /\ fabric = NoFabric

\* the framework calls plugin.connect(model, optimizers, lr_schedulers)
Connect ==
    \E l \in DOMAIN lists, m \in Models, s \in Schedulers :
        LET r == connect(plugin, heap, lists, m, l, s)
        IN  /\ plugin.cls = "MegatronMixedPrecision"   \* the class that defines connect
            /\ Len(r.heap) <= MaxHeap
            /\ Len(r.lists) <= MaxLists
            /\ heap' = r.heap
            /\ lists' = r.lists
            /\ call' = [NoCall EXCEPT
                          !.op = "connect",
                          !.model = m,
                          !.optimizers = l,
                          !.optimizers_before = lists[l],
                          !.lr_schedulers = s,
                          !.heap_before = Len(heap),
                          !.lists_before = Len(lists),
                          !.ret_model = r.model,
                          !.ret_optimizers = r.optimizers,
                          !.ret_lr_schedulers = r.lr_schedulers,
                          !.outcome = "returned"]
            /\ UNCHANGED <<plugin, io, fabric>>

\* a caller calls plugin.convert_optimizer(optimizer)
ConvertOptimizer ==
    \E o \in DOMAIN heap :
        LET r == convert_optimizer(plugin, heap, o)
        IN  /\ plugin.cls = "MegatronMixedPrecision"
            /\ Len(r.heap) <= MaxHeap
            /\ heap' = r.heap
            /\ call' = [NoCall EXCEPT
                          !.op = "convert_optimizer",
                          !.optimizer = o,
                          !.heap_before = Len(heap),
                          !.lists_before = Len(lists),
                          !.ret_optimizer = r.ret,
                          !.outcome = "returned"]
            /\ UNCHANGED <<plugin, lists, io, fabric>>

\* the training loop calls plugin.optimizer_step(optimizer, model, closure)
OptimizerStep ==
    \E o \in DOMAIN heap, m \in Models, c \in ClosureResults :
        LET r == optimizer_step(plugin, heap[o], m, c)
        IN  /\ call' = [NoCall EXCEPT
                          !.op = "optimizer_step",
                          !.optimizer = o,
                          !.model = m,
                          !.closure_result = c,
                          !.heap_before = Len(heap),
                          !.lists_before = Len(lists),
                          !.trace = r.trace,
                          !.outcome = r.outcome,
                          !.branch = r.branch]
            /\ UNCHANGED <<plugin, heap, lists, io, fabric>>

Next == Connect \/ ConvertOptimizer \/ OptimizerStep

Spec == Init /\ [][Next]_vars

----------------------------------------------------------------------------
(* optimizer_step alone, for every plugin of either class *)

InitStep ==
    /\ plugin \in Plugins
    /\ heap = CallerHeap \o ForeignOptimizers
    /\ lists = << <<>> >>
    /\ call = NoCall
    /\ io = NoCapture
    /\ fabric = NoFabric

NextStep == OptimizerStep

SpecStep == InitStep /\ [][NextStep]_vars

----------------------------------------------------------------------------
(* The state machine of the trainer *)

InitTrainer ==
    /\ plugin = MegatronMixedPrecision_init("bf16-mixed", TRUE, "None")
    /\ heap = CallerHeap
    /\ lists = << <<>> >>
    /\ call = NoCall
    /\ io \in Captures
    /\ fabric = NoFabric

\* a caller calls trainer.to_fabric(callbacks, loggers)
ToFabric ==
    \E cb \in CallbackArgs, lg \in LoggerArgs :
        /\ fabric' = to_fabric(io, cb, lg)
        /\ call' = [NoCall EXCEPT
                      !.op = "to_fabric",
                      !.callbacks = cb,
                      !.loggers = lg,
                      !.outcome = "returned"]
        /\ UNCHANGED <<plugin, heap, lists, io>>

NextTrainer == ToFabric

SpecTrainer == InitTrainer /\ [][NextTrainer]_vars

----------------------------------------------------------------------------
(* Vocabulary of the properties *)

Stepped == call.op = "optimizer_step"

\* the optimizer the last call was given
StepOptimizer == heap[call.optimizer]

\* the call went past the delegation to the parent class
MasterPath ==
    /\ Stepped
    /\ plugin.cls = "MegatronMixedPrecision" =>
           plugin.amp_02 \/ StepOptimizer.isMainParamsOptimizerWrapper

\* MegatronHalfPrecision takes nothing but a MainParamsOptimizerWrapper
WrapperIfHalf ==
    plugin.cls = "MegatronHalfPrecision" => StepOptimizer.isMainParamsOptimizerWrapper

Mismatched ==
    \/ plugin.scaler = "None" /\ StepOptimizer.fp32_grad_accumulation = "false"
    \/ plugin.scaler # "None" /\ StepOptimizer.fp32_grad_accumulation = "true"

AssertionErrors == {AssertWrapper, AssertBF16, AssertFP16}

InTrace(name) == \E i \in DOMAIN call.trace : call.trace[i] = name

Occurrences(name) == Cardinality({ i \in DOMAIN call.trace : call.trace[i] = name })

\* every occurrence of a comes before every occurrence of b
Before(a, b) ==
    \A i, j \in DOMAIN call.trace :
        call.trace[i] = a /\ call.trace[j] = b => i < j

\* a wrapper the plugin built: the caller's optimizers come first in the heap
PluginMade(o) == o > Len(CallerHeap)

\* an optimizer that is the first of a list connect returned after wrapping
\* (the caller's own list is list 1; connect allocates the others)
ConnectedFirst(o) ==
    \E l \in DOMAIN lists : l > 1 /\ lists[l] # <<>> /\ lists[l][1] = o

----------------------------------------------------------------------------
(* C1 *)

\* C1: in the master-parameter path a mismatched gradient-accumulation
\* precision (no scaler and fp32_grad_accumulation false, or a scaler and
\* fp32_grad_accumulation true) ends the call with an assertion failure, and
\* the call has invoked nothing: no closure, no gradient copy, no unscale, no
\* step, no scaler update.
C1_MismatchAbortsBeforeAnyCall ==
    MasterPath /\ Mismatched =>
        /\ call.outcome \in AssertionErrors
        /\ call.trace = <<>>

C1_Witness ==
    /\ MasterPath /\ Mismatched
    /\ plugin.cls = "MegatronMixedPrecision"
    /\ plugin.scaler # "None"
    /\ call.outcome = AssertFP16

----------------------------------------------------------------------------
(* C2 *)

\* C2: with a scaler and the precondition satisfied, a call in the
\* master-parameter path calls the closure exactly once, then
\* copy_model_grads_to_main_grads, then scaler.unscale_, then _after_closure,
\* and only then, if at all, scaler.step followed by scaler.update.
C2_ScaledOrder ==
    /\ MasterPath /\ WrapperIfHalf
    /\ plugin.scaler # "None"
    /\ StepOptimizer.fp32_grad_accumulation = "false"
    =>
    /\ call.outcome = "returned"
    /\ Len(call.trace) >= 4
    /\ call.trace[1] = "closure"
    /\ call.trace[2] = "optimizer.copy_model_grads_to_main_grads"
    /\ call.trace[3] = "scaler.unscale_"
    /\ call.trace[4] = "_after_closure"
    /\ Occurrences("closure") = 1
    /\ Occurrences("scaler.unscale_") = 1
    /\ Before("scaler.unscale_", "scaler.step")
    /\ Before("_after_closure", "scaler.step")
    /\ Before("scaler.step", "scaler.update")
    /\ \A i \in DOMAIN call.trace :
          i > 4 => call.trace[i] \in {"scaler.step", "scaler.update"}

C2_Witness ==
    /\ MasterPath /\ WrapperIfHalf
    /\ plugin.scaler # "None"
    /\ StepOptimizer.fp32_grad_accumulation = "false"
    /\ InTrace("scaler.step")
    /\ InTrace("scaler.unscale_")

----------------------------------------------------------------------------
(* C3 *)

\* C3: in the scaled path the plugin never calls optimizer.step itself; it
\* calls scaler.step, immediately followed by scaler.update, exactly when it is
\* not the case that the model is a LightningModule in automatic optimization
\* whose closure returned None; otherwise it calls neither.
C3_StepOnlyThroughScaler ==
    /\ MasterPath /\ WrapperIfHalf
    /\ plugin.scaler # "None"
    /\ StepOptimizer.fp32_grad_accumulation = "false"
    =>
    /\ ~InTrace("optimizer.step")
    /\ \A i \in DOMAIN call.trace :
          call.trace[i] = "scaler.step" =>
              i + 1 \in DOMAIN call.trace /\ call.trace[i + 1] = "scaler.update"
    /\ \A i \in DOMAIN call.trace :
          call.trace[i] = "scaler.update" =>
              i - 1 \in DOMAIN call.trace /\ call.trace[i - 1] = "scaler.step"
    /\ IF StepOmitted(call.model, call.closure_result)
       THEN ~InTrace("scaler.step") /\ ~InTrace("scaler.update")
       ELSE Occurrences("scaler.step") = 1 /\ Occurrences("scaler.update") = 1

C3_Witness ==
    /\ MasterPath /\ WrapperIfHalf
    /\ plugin.scaler # "None"
    /\ StepOptimizer.fp32_grad_accumulation = "false"
    /\ StepOmitted(call.model, call.closure_result)
    /\ call.outcome = "returned"
    /\ ~InTrace("scaler.step")

----------------------------------------------------------------------------
(* C4 *)

\* C4: a MegatronMixedPrecision has no scaler exactly when its precision is
\* "bf16-mixed" (dtype bfloat16) and the GradScaler its constructor created
\* exactly when its precision is "16-mixed" (dtype float16), whatever scaler
\* its caller passed; so in the master-parameter path a bf16-mixed plugin takes
\* the unscaled branch and a 16-mixed plugin the scaled branch.
C4_ScalerFollowsPrecision ==
    plugin.cls = "MegatronMixedPrecision" =>
        /\ plugin.precision \in Precisions
        /\ plugin.scaler = "None" <=> plugin.precision = "bf16-mixed"
        /\ plugin.scaler = "GradScaler" <=> plugin.precision = "16-mixed"
        /\ plugin.dtype = "bfloat16" <=> plugin.precision = "bf16-mixed"
        /\ plugin.dtype = "float16" <=> plugin.precision = "16-mixed"
        /\ MasterPath =>
              call.branch = IF plugin.precision = "bf16-mixed"
                            THEN "unscaled" ELSE "scaled"

C4_Witness ==
    /\ plugin.cls = "MegatronMixedPrecision"
    /\ plugin.precision = "bf16-mixed"
    /\ plugin.scalerArg = "CallerScaler"
    /\ MasterPath
    /\ call.branch = "unscaled"
    /\ call.outcome = "returned"

----------------------------------------------------------------------------
(* C7 *)

\* C7: without a scaler and with fp32_grad_accumulation true, a call in the
\* master-parameter path makes exactly three calls: the closure, then
\* _after_closure, then optimizer.step; the step is taken whatever the closure
\* returned, and neither the gradient copy nor any scaler method is called.
C7_UnscaledAlwaysSteps ==
    /\ MasterPath /\ WrapperIfHalf
    /\ plugin.scaler = "None"
    /\ StepOptimizer.fp32_grad_accumulation = "true"
    =>
    /\ call.outcome = "returned"
    /\ call.trace = <<"closure", "_after_closure", "optimizer.step">>

C7_Witness ==
    /\ MasterPath /\ WrapperIfHalf
    /\ plugin.scaler = "None"
    /\ StepOptimizer.fp32_grad_accumulation = "true"
    /\ StepOmitted(call.model, call.closure_result)
    /\ InTrace("optimizer.step")

----------------------------------------------------------------------------
(* C5 *)

\* C5: with amp_02 false, connect and convert_optimizer create no wrapper and
\* return the very objects they were given, and optimizer_step on an optimizer
\* that is no wrapper hands the call to the parent class and does nothing
\* else; with amp_02 true, connect on a non-empty list whose first optimizer
\* is no wrapper returns a list whose first optimizer is a wrapper.
C5_Amp02SelectsWrapping ==
    /\ ~plugin.amp_02 /\ call.op = "connect" =>
          /\ call.ret_optimizers = call.optimizers
          /\ lists[call.optimizers] = call.optimizers_before
          /\ Len(lists) = call.lists_before
          /\ Len(heap) = call.heap_before
    /\ ~plugin.amp_02 /\ call.op = "convert_optimizer" =>
          /\ call.ret_optimizer = call.optimizer
          /\ Len(heap) = call.heap_before
    /\ ~plugin.amp_02 /\ Stepped /\ ~StepOptimizer.isMainParamsOptimizerWrapper =>
          /\ call.branch = "parent"
          /\ call.trace = <<"super.optimizer_step">>
    /\ /\ plugin.amp_02 /\ call.op = "connect"
       /\ call.optimizers_before # <<>>
       /\ ~heap[call.optimizers_before[1]].isMainParamsOptimizerWrapper
       =>
       /\ lists[call.ret_optimizers] # <<>>
       /\ heap[lists[call.ret_optimizers][1]].isMainParamsOptimizerWrapper

C5_Witness ==
    /\ ~plugin.amp_02
    /\ call.op = "convert_optimizer"
    /\ ~heap[call.optimizer].isMainParamsOptimizerWrapper
    /\ call.ret_optimizer = call.optimizer

----------------------------------------------------------------------------
(* C8 *)

\* C8: optimizer_step on the first optimizer of a list that connect returned
\* after wrapping it never ends on a gradient-accumulation-precision
\* assertion, in either precision mode.
C8_OwnWrapperAccepted ==
    /\ Stepped
    /\ plugin.amp_02
    /\ PluginMade(call.optimizer)
    /\ ConnectedFirst(call.optimizer)
    =>
    call.outcome \notin {AssertBF16, AssertFP16}

\* the half of C8 that the code does satisfy: the bf16-mixed plugin accepts
\* the wrapper it built
C8_OwnWrapperAcceptedBF16 ==
    /\ Stepped
    /\ plugin.amp_02
    /\ plugin.precision = "bf16-mixed"
    /\ PluginMade(call.optimizer)
    =>
    call.outcome = "returned"

----------------------------------------------------------------------------
(* C9 *)

\* C9: convert_optimizer is idempotent and never wraps a wrapper: converting
\* what convert_optimizer returned gives the same object and allocates
\* nothing, an optimizer that already is a wrapper is returned as it is, and
\* connect applied to what connect returned gives back the same list, the same
\* optimizers, and allocates nothing.
C9_ConvertIdempotent ==
    /\ call.op = "convert_optimizer" =>
          LET again == convert_optimizer(plugin, heap, call.ret_optimizer)
          IN  /\ again.ret = call.ret_optimizer
              /\ again.heap = heap
              /\ heap[call.optimizer].isMainParamsOptimizerWrapper =>
                    call.ret_optimizer = call.optimizer /\ Len(heap) = call.heap_before
              /\ Len(heap) <= call.heap_before + 1
    /\ call.op = "connect" =>
          LET again == connect(plugin, heap, lists, call.ret_model,
                               call.ret_optimizers, call.ret_lr_schedulers)
          IN  /\ again.optimizers = call.ret_optimizers
              /\ again.lists = lists
              /\ again.heap = heap

C9_Witness ==
    /\ call.op = "convert_optimizer"
    /\ plugin.amp_02
    /\ call.ret_optimizer # call.optimizer
    /\ heap[call.ret_optimizer].isMainParamsOptimizerWrapper
    /\ heap[call.ret_optimizer].inner = call.optimizer

----------------------------------------------------------------------------
(* C10 *)

\* C10: connect returns the model and the lr_schedulers it was given, leaves
\* the caller's list as it was, returns a list as long as the one it was given
\* whose optimizers from the second on are the same objects in the same
\* places, and for an empty list returns the list it was given.
C10_ConnectFrame ==
    call.op = "connect" =>
        /\ call.ret_model = call.model
        /\ call.ret_lr_schedulers = call.lr_schedulers
        /\ lists[call.optimizers] = call.optimizers_before
        /\ Len(lists[call.ret_optimizers]) = Len(call.optimizers_before)
        /\ \A i \in DOMAIN call.optimizers_before :
              i >= 2 => lists[call.ret_optimizers][i] = call.optimizers_before[i]
        /\ call.optimizers_before = <<>> => call.ret_optimizers = call.optimizers

\* every list that existed before a connect is the same after it
C10_ListsKept ==
    [][\A l \in DOMAIN lists : l \in DOMAIN lists' /\ lists'[l] = lists[l]]_vars

C10_Witness ==
    /\ call.op = "connect"
    /\ call.ret_optimizers # call.optimizers
    /\ Len(call.optimizers_before) >= 2
    /\ lists[call.ret_optimizers][1] # call.optimizers_before[1]

----------------------------------------------------------------------------
(* C6 *)

\* what to_fabric must pass for a captured strategy or plugins value
Converted(captured, passed) ==
    /\ passed.conv
    /\ passed.v = captured.v
    /\ passed.kind = IF captured.kind = "config" THEN "built" ELSE captured.kind

\* C6: the Fabric is built from the captured configuration and the call's
\* arguments alone: devices, accelerator, strategy and plugins are None when
\* the configuration has no such attribute; otherwise devices and accelerator
\* are the captured values, strategy and plugins are the captured values,
\* built first when they are fiddle Configs, after the to_fabric conversion;
\* callbacks and loggers are the arguments of the call.
C6_FabricFromCapture ==
    call.op = "to_fabric" =>
        /\ \A a \in {"devices", "accelerator", "strategy", "plugins"} :
              io[a] = Absent => fabric[a] = NoneValue
        /\ \A a \in {"devices", "accelerator"} :
              io[a] # Absent => fabric[a] = io[a]
        /\ \A a \in {"strategy", "plugins"} :
              io[a] # Absent => Converted(io[a], fabric[a])
        /\ fabric.callbacks = call.callbacks
        /\ fabric.loggers = call.loggers

C6_Witness ==
    /\ call.op = "to_fabric"
    /\ io.strategy.kind = "config"
    /\ fabric.strategy.kind = "built"
    /\ io.plugins = Absent
    /\ io.callbacks # Absent
    /\ fabric.callbacks = NoneValue

====
